---- MODULE Spec2Model ----
(***************************************************************************)
(* The Auth.js persistence adapter of src/db/schema.ts                     *)
(* (SQLiteDrizzleAdapter) over the four tables users, accounts, sessions   *)
(* and verificationToken.  Every adapter function is one action; the       *)
(* store enforces the constraints the schema declares (primary keys, NOT   *)
(* NULL, the two foreign keys with ON DELETE CASCADE).                     *)
(*                                                                         *)
(* A row carries the columns the adapter's statements select on or that    *)
(* the constraints name: users (id, email), accounts (provider,            *)
(* providerAccountId, userId, type, access_token), sessions (sessionToken, *)
(* userId), verificationToken (identifier, token).  The other columns are  *)
(* stored and returned like email, with no condition on them.  The posts   *)
(* table has no adapter function.  A statement that throws for a reason    *)
(* other than a constraint is modelled where the adapter handles it, in    *)
(* useVerificationToken; elsewhere it propagates and changes nothing.      *)
(***************************************************************************)
EXTENDS Integers, FiniteSets, Sequences, TLC

VARIABLES users, accounts, sessions, verificationTokens,
          created, consumed, prev, lastOp, result

vars == <<users, accounts, sessions, verificationTokens,
          created, consumed, prev, lastOp, result>>

\* ---------------------------------------------------------------- values
\* JavaScript undefined (an absent property) and SQL NULL / JavaScript null.
Undefined == "<undefined>"
Null == "<null>"
\* Identifiers crypto.randomUUID() can produce in a run.
UUIDs == {"u1", "u2"}
\* The number of rows of accounts the model explores.
MaxAccounts == 1

Emails == {"a@b.com", "A@b.com"}
SessionTokens == {"s1"}
Providers == {"github", "google"}
ProviderAccountIds == {"123", "456"}
Identifiers == {"x@y.com"}
Tokens == {"abc", "def"}

\* ---------------------------------------------------------------- results
RowResult(r) == [kind |-> "row", row |-> r]
PairResult(s, u) == [kind |-> "pair", session |-> s, user |-> u]
NullResult == [kind |-> "null"]
UndefinedResult == [kind |-> "undefined"]
ErrorResult(m) == [kind |-> "error", message |-> m]
\* An error thrown by the store for a violated constraint; the adapter lets
\* it propagate.
ConstraintError == ErrorResult("SQLITE_CONSTRAINT")

\* A lookup that throws when no row matches.
OrNull_throw(rows) ==
    IF rows = {} THEN {ErrorResult("Not found.")}
    ELSE {RowResult(r) : r \in rows}

\* `x ?? null` applied to the result of .get(): no row becomes null.
OrNull(rows) == IF rows = {} THEN {NullResult} ELSE {RowResult(r) : r \in rows}
\* .get() alone: no row is undefined.
OrUndefined(rows) ==
    IF rows = {} THEN {UndefinedResult} ELSE {RowResult(r) : r \in rows}

\* A test for the absent property only.
Falsy_undefinedOnly(x) == x = Undefined

\* JavaScript `!x` for a string-or-undefined x.
Falsy(x) == x \in {Undefined, ""}

\* ---------------------------------------------------------------- store
db == [users |-> users, accounts |-> accounts, sessions |-> sessions,
       verificationTokens |-> verificationTokens,
       created |-> created, consumed |-> consumed]

\* users.id is the primary key.
UserIds(us) == {u.id : u \in us}
\* A column without the reference: every userId is accepted.
ReferencesUser_off(us, userId) == TRUE

\* accounts.userId / sessions.userId .references(() => users.id): an insert
\* or update is accepted only if the referenced user exists.
ReferencesUser(us, userId) == userId \in UserIds(us)
AccountKey(a) == <<a.provider, a.providerAccountId>>
TokenKey(t) == <<t.identifier, t.token>>

\* A comparison that ignores case (COLLATE NOCASE).
eq_nocase(column, value) ==
    LET Lower(str) == IF str = "A@b.com" THEN "a@b.com" ELSE str
    IN Lower(column) = Lower(value)

\* eq(column, value) on a TEXT column: SQLite's default BINARY collation,
\* equality of the strings.
eq(column, value) == column = value

Return(op, arg, res) ==
    /\ lastOp' = [op |-> op, arg |-> arg]
    /\ result' = res
    /\ prev' = db

Init ==
    /\ users = {}
    /\ accounts = {}
    /\ sessions = {}
    /\ verificationTokens = {}
    /\ created = {}
    /\ consumed = {}
    /\ prev = [users |-> {}, accounts |-> {}, sessions |-> {},
               verificationTokens |-> {}, created |-> {}, consumed |-> {}]
    /\ lastOp = [op |-> "init", arg |-> Undefined]
    /\ result = UndefinedResult

\* ---------------------------------------------------------------- users
\* An id generator that only avoids the identifiers stored now.
randomUUID_reissue(used) == UUIDs \ UserIds(users)

\* crypto.randomUUID(): a version-4 UUID.  The outcomes are the identifiers
\* never handed out before (used); a collision of two random UUIDs is not
\* modelled.
randomUUID(used) == UUIDs \ used

\* An object literal { id: uuid, ...data }: the id of data wins.
NewUserId_spreadLast(data, uuid) ==
    IF data.id = Undefined THEN uuid ELSE data.id

\* The id of the object literal { ...data, id: uuid }: the later property
\* replaces an id carried by data.
NewUserId(data, uuid) == uuid

\* createUser: insert into users values { ...data, id: crypto.randomUUID() },
\* returning, .get().  users.id is the primary key: a row whose id is stored
\* already is rejected by the store and the error propagates.
createUser ==
    \E dataId \in {Undefined, "u1"}, email \in Emails :
      /\ \E uuid \in randomUUID(created) :
           LET data == [id |-> dataId, email |-> email]
               row == [id |-> NewUserId(data, uuid), email |-> data.email]
           IN IF row.id \in UserIds(users)
                THEN /\ UNCHANGED <<users, created>>
                     /\ Return("createUser", data, ConstraintError)
                ELSE /\ users' = users \cup {row}
                     /\ created' = created \cup {row.id}
                     /\ Return("createUser", data, RowResult(row))
      /\ UNCHANGED <<accounts, sessions, verificationTokens, consumed>>

\* getUser: select from users where id = data, .get() ?? null.
getUser ==
    \E id \in UUIDs :
      /\ \E res \in OrNull({u \in users : eq(u.id, id)}) :
           Return("getUser", id, res)
      /\ UNCHANGED <<users, accounts, sessions, verificationTokens,
                     created, consumed>>

\* getUserByEmail: select from users where email = data, .get() ?? null.
\* No ORDER BY: with several matching rows the store returns any one.
getUserByEmail ==
    \E email \in Emails :
      /\ \E res \in OrNull({u \in users : eq(u.email, email)}) :
           Return("getUserByEmail", email, res)
      /\ UNCHANGED <<users, accounts, sessions, verificationTokens,
                     created, consumed>>

\* update(users).set(data).where(id = data.id): the properties data defines
\* replace the columns, the others keep their value.
SetUser(u, data) ==
    [id |-> data.id,
     email |-> IF data.email = Undefined THEN u.email ELSE data.email]

\* updateUser: throws "No user id." when data.id is falsy, before any
\* statement; otherwise update ... returning, .get().
updateUser ==
    \E id \in UUIDs \cup {Undefined, ""}, email \in Emails \cup {Undefined} :
      LET data == [id |-> id, email |-> email]
          hit == {u \in users : eq(u.id, data.id)}
      IN /\ IF Falsy(data.id)
              THEN /\ UNCHANGED users
                   /\ Return("updateUser", data, ErrorResult("No user id."))
              ELSE /\ users' = (users \ hit) \cup {SetUser(u, data) : u \in hit}
                   /\ \E res \in OrUndefined({SetUser(u, data) : u \in hit}) :
                        Return("updateUser", data, res)
         /\ UNCHANGED <<accounts, sessions, verificationTokens,
                        created, consumed>>

\* A deletion that leaves the dependent rows in place.
Cascade_none(rows, gone) == rows

\* ON DELETE CASCADE of accounts.userId and sessions.userId: the rows that
\* survive the deletion of the users in gone.
Cascade(rows, gone) == {r \in rows : r.userId \notin UserIds(gone)}

\* deleteUser: delete from users where id = id, returning, .get().
deleteUser ==
    \E id \in UUIDs :
      LET gone == {u \in users : eq(u.id, id)}
      IN /\ users' = users \ gone
         /\ accounts' = Cascade(accounts, gone)
         /\ sessions' = Cascade(sessions, gone)
         /\ \E res \in OrUndefined(gone) : Return("deleteUser", id, res)
         /\ UNCHANGED <<verificationTokens, created, consumed>>

\* ---------------------------------------------------------------- sessions
\* createSession: insert into sessions values data, returning, .get().
createSession ==
    \E sessionToken \in SessionTokens, userId \in UUIDs :
      LET data == [sessionToken |-> sessionToken, userId |-> userId]
      IN /\ IF \/ \E s \in sessions : s.sessionToken = sessionToken
               \/ ~ReferencesUser(users, userId)
              THEN /\ UNCHANGED sessions
                   /\ Return("createSession", data, ConstraintError)
              ELSE /\ sessions' = sessions \cup {data}
                   /\ Return("createSession", data, RowResult(data))
         /\ UNCHANGED <<users, accounts, verificationTokens, created, consumed>>

\* getSessionAndUser: sessions inner join users on users.id = sessions.userId
\* where sessionToken = data, .get() ?? null.
getSessionAndUser ==
    \E sessionToken \in SessionTokens :
      LET joined == {PairResult(s, u) : s \in sessions, u \in users}
          rows == {p \in joined : /\ eq(p.session.sessionToken, sessionToken)
                                  /\ eq(p.user.id, p.session.userId)}
      IN /\ \E res \in (IF rows = {} THEN {NullResult} ELSE rows) :
              Return("getSessionAndUser", sessionToken, res)
         /\ UNCHANGED <<users, accounts, sessions, verificationTokens,
                        created, consumed>>

SetSession(s, data) ==
    [sessionToken |-> data.sessionToken,
     userId |-> IF data.userId = Undefined THEN s.userId ELSE data.userId]

\* updateSession: update sessions set data where sessionToken =
\* data.sessionToken, returning, .get().
updateSession ==
    \E sessionToken \in SessionTokens, userId \in UUIDs \cup {Undefined} :
      LET data == [sessionToken |-> sessionToken, userId |-> userId]
          hit == {s \in sessions : eq(s.sessionToken, data.sessionToken)}
          new == {SetSession(s, data) : s \in hit}
      IN /\ IF \E s \in new : ~ReferencesUser(users, s.userId)
              THEN /\ UNCHANGED sessions
                   /\ Return("updateSession", data, ConstraintError)
              ELSE /\ sessions' = (sessions \ hit) \cup new
                   /\ \E res \in OrUndefined(new) :
                        Return("updateSession", data, res)
         /\ UNCHANGED <<users, accounts, verificationTokens, created, consumed>>

\* deleteSession: delete from sessions where sessionToken = sessionToken,
\* returning, .get() ?? null.
deleteSession ==
    \E sessionToken \in SessionTokens :
      LET gone == {s \in sessions : eq(s.sessionToken, sessionToken)}
      IN /\ sessions' = sessions \ gone
         /\ \E res \in OrNull(gone) : Return("deleteSession", sessionToken, res)
         /\ UNCHANGED <<users, accounts, verificationTokens, created, consumed>>

\* ---------------------------------------------------------------- accounts
\* The AdapterAccount linkAccount returns: a NULL optional column is
\* reported as undefined.
Normalize(a) ==
    [a EXCEPT !.access_token = IF @ = Null THEN Undefined ELSE @]

\* linkAccount: insert into accounts values rawAccount, returning, .get();
\* (provider, providerAccountId) is the primary key, userId references users.
linkAccount ==
    \E provider \in Providers, providerAccountId \in ProviderAccountIds,
       userId \in UUIDs :
      LET rawAccount == [userId |-> userId, type |-> "oauth",
                         provider |-> provider,
                         providerAccountId |-> providerAccountId,
                         access_token |-> Undefined]
          updatedAccount ==
              [rawAccount EXCEPT
                 !.access_token = IF @ = Undefined THEN Null ELSE @]
      IN /\ IF \/ \E a \in accounts : AccountKey(a) = AccountKey(rawAccount)
               \/ ~ReferencesUser(users, userId)
              THEN /\ UNCHANGED accounts
                   /\ Return("linkAccount", rawAccount, ConstraintError)
              ELSE /\ Cardinality(accounts) < MaxAccounts
                   /\ accounts' = accounts \cup {updatedAccount}
                   /\ Return("linkAccount", rawAccount,
                             RowResult(Normalize(updatedAccount)))
         /\ UNCHANGED <<users, sessions, verificationTokens, created, consumed>>

\* A where clause on the provider alone.
MatchesAccount_providerOnly(a, account) == eq(a.provider, account.provider)

\* The where clause of getUserByAccount and unlinkAccount.
MatchesAccount(a, account) ==
    /\ eq(a.provider, account.provider)
    /\ eq(a.providerAccountId, account.providerAccountId)

\* accounts left join users on users.id = accounts.userId where the account
\* matches, .get(); results?.users ?? null.  A joined row without a user
\* carries users = null.
UsersOfAccount(as, us, account) ==
    LET hit == {a \in as : MatchesAccount(a, account)}
        joined == {RowResult(u) : u \in {u \in us : \E a \in hit : eq(u.id, a.userId)}}
                  \cup {NullResult : a \in {a \in hit : ~ReferencesUser(us, a.userId)}}
    IN IF hit = {} THEN {NullResult} ELSE joined

getUserByAccount ==
    \E provider \in Providers, providerAccountId \in ProviderAccountIds :
      LET account == [provider |-> provider,
                      providerAccountId |-> providerAccountId]
      IN /\ \E res \in UsersOfAccount(accounts, users, account) :
              Return("getUserByAccount", account, res)
         /\ UNCHANGED <<users, accounts, sessions, verificationTokens,
                        created, consumed>>

\* unlinkAccount: delete from accounts where the account matches, .run();
\* returns undefined.
unlinkAccount ==
    \E provider \in Providers, providerAccountId \in ProviderAccountIds :
      LET account == [provider |-> provider,
                      providerAccountId |-> providerAccountId]
      IN /\ accounts' = {a \in accounts : ~MatchesAccount(a, account)}
         /\ Return("unlinkAccount", account, UndefinedResult)
         /\ UNCHANGED <<users, sessions, verificationTokens, created, consumed>>

\* ---------------------------------------------------------------- tokens
\* createVerificationToken: insert into verificationToken values token,
\* returning, .get(); (identifier, token) is the primary key.
createVerificationToken ==
    \E identifier \in Identifiers, token \in Tokens :
      LET row == [identifier |-> identifier, token |-> token]
      IN /\ IF \E t \in verificationTokens : TokenKey(t) = TokenKey(row)
              THEN /\ UNCHANGED <<verificationTokens, consumed>>
                   /\ Return("createVerificationToken", row, ConstraintError)
              ELSE /\ verificationTokens' = verificationTokens \cup {row}
                   /\ consumed' = consumed \ {TokenKey(row)}
                   /\ Return("createVerificationToken", row, RowResult(row))
         /\ UNCHANGED <<users, accounts, sessions, created>>

\* A handler that reports the missing row as the error.
CatchDelete_throwOnMissing(storeThrows, gone) ==
    IF storeThrows \/ gone = {}
      THEN {ErrorResult("No verification token found.")}
      ELSE {RowResult(t) : t \in gone}

\* try { return delete ... .returning().get() ?? null } catch (err) { throw
\* new Error("No verification token found.") }
CatchDelete(storeThrows, gone) ==
    IF storeThrows
      THEN {ErrorResult("No verification token found.")}
      ELSE OrNull(gone)

\* A consume that reads the rows and leaves them in the table.
DeleteTokens_keep(rows, gone) == rows

\* delete from verificationToken where ...: the rows left in the table.
DeleteTokens(rows, gone) == rows \ gone

\* useVerificationToken: delete from verificationToken where identifier and
\* token match, returning, .get() ?? null; an exception of the statement is
\* caught and replaced by Error("No verification token found.").
useVerificationToken ==
    \E identifier \in Identifiers, token \in Tokens, storeThrows \in BOOLEAN :
      LET gone == {t \in verificationTokens :
                     /\ eq(t.identifier, identifier)
                     /\ eq(t.token, token)}
          left == IF storeThrows THEN verificationTokens
                  ELSE DeleteTokens(verificationTokens, gone)
      IN /\ verificationTokens' = left
         /\ consumed' = IF storeThrows THEN consumed
                        ELSE consumed \cup {TokenKey(t) : t \in gone}
         /\ \E res \in CatchDelete(storeThrows, gone) :
              Return("useVerificationToken",
                     [identifier |-> identifier, token |-> token,
                      storeThrows |-> storeThrows], res)
         /\ UNCHANGED <<users, accounts, sessions, created>>

\* ================================================================ claims
Called(op) == lastOp.op = op
Returned(kind) == result.kind = kind
TokenKeys(rows) == {TokenKey(t) : t \in rows}
UsedKey == <<lastOp.arg.identifier, lastOp.arg.token>>
TablesUnchanged ==
    /\ users = prev.users
    /\ accounts = prev.accounts
    /\ sessions = prev.sessions
    /\ verificationTokens = prev.verificationTokens

\* C1: useVerificationToken is single-use.  A pair consumed by a successful
\* useVerificationToken and not created again since (consumed) is absent
\* from the table, a useVerificationToken that returns a row has removed it,
\* and a further useVerificationToken of a consumed pair returns no row: it
\* yields null or the error.
C1_SingleUse ==
    /\ consumed \cap TokenKeys(verificationTokens) = {}
    /\ (Called("useVerificationToken") /\ Returned("row")) =>
         /\ result.row \in prev.verificationTokens
         /\ TokenKey(result.row) = UsedKey
         /\ UsedKey \notin TokenKeys(verificationTokens)
         /\ UsedKey \in consumed
    /\ (Called("useVerificationToken") /\ UsedKey \in prev.consumed) =>
         /\ result.kind \in {"null", "error"}
         /\ UsedKey \notin TokenKeys(verificationTokens)

\* A second useVerificationToken of a consumed pair, while the other pair is
\* still stored.
C1_Witness ==
    /\ Called("useVerificationToken")
    /\ UsedKey \in prev.consumed
    /\ Returned("null")
    /\ verificationTokens # {}

\* C2 as stated: useVerificationToken raises "No verification token found."
\* whenever the deletion fails, also when simply no row matches the pair, so
\* a second call after a successful consume returns an error.
C2_ErrorWhenNoRow ==
    (Called("useVerificationToken")
       /\ UsedKey \notin TokenKeys(prev.verificationTokens)) =>
         result = ErrorResult("No verification token found.")

\* C2 amended: useVerificationToken raises "No verification token found."
\* exactly when the delete statement throws, and then leaves the table as it
\* was; when the statement runs and no row matches the pair it returns null,
\* so a second call after a successful consume returns null unless the store
\* throws.
C2_ErrorOnlyWhenStoreThrows ==
    Called("useVerificationToken") =>
      /\ lastOp.arg.storeThrows =>
           /\ result = ErrorResult("No verification token found.")
           /\ TablesUnchanged
      /\ ~lastOp.arg.storeThrows =>
           /\ ~Returned("error")
           /\ UsedKey \notin TokenKeys(prev.verificationTokens) =>
                result = NullResult

\* The second call after a successful consume, the store not throwing: null.
C2_Witness ==
    /\ Called("useVerificationToken")
    /\ ~lastOp.arg.storeThrows
    /\ UsedKey \in prev.consumed
    /\ result = NullResult

\* C3: in the state right after deleteUser(id) of an existing user no
\* session and no account with userId = id remains, and the sessions and
\* accounts of the other users are the ones stored before.
C3_DeleteCascades ==
    (Called("deleteUser") /\ Returned("row")) =>
      /\ result.row \in prev.users
      /\ result.row.id = lastOp.arg
      /\ users = prev.users \ {result.row}
      /\ \A s \in sessions : s.userId # lastOp.arg
      /\ \A a \in accounts : a.userId # lastOp.arg
      /\ sessions = {s \in prev.sessions : s.userId # lastOp.arg}
      /\ accounts = {a \in prev.accounts : a.userId # lastOp.arg}

\* deleteUser of a user that owned a session, while another user's account
\* stays.
C3_Witness ==
    /\ Called("deleteUser")
    /\ Returned("row")
    /\ \E s \in prev.sessions : s.userId = lastOp.arg
    /\ accounts # {}

C5_SuppliedIdKept ==
    (Called("createUser") /\ lastOp.arg.id # Undefined /\ Returned("row")) =>
      result.row.id = lastOp.arg.id

\* C5 amended: createUser always generates the identifier, also when data
\* carries an id: the id of the inserted and returned row is the generated
\* one, never handed out before, whatever id was supplied, and getUser of
\* the returned id returns the row.
C5_IdAlwaysGenerated ==
    Called("createUser") =>
      /\ Returned("row")
      /\ result.row.id \in UUIDs \ prev.created
      /\ result.row.email = lastOp.arg.email
      /\ users = prev.users \cup {result.row}
      /\ {u \in users : u.id = result.row.id} = {result.row}

\* createUser with a supplied id returns a row with another id.
C5_Witness ==
    /\ Called("createUser")
    /\ lastOp.arg.id = "u1"
    /\ Returned("row")
    /\ result.row.id = "u2"

\* The users whose email is exactly the string looked up.
SameEmail(us, email) == {u \in us : u.email = email}

\* C6 as stated: in every state of the store, getUserByEmail(e) returns the
\* row a createUser with email e returned and nothing updated or deleted
\* since.  (Every stored row can be stored by createUser alone, so the rows
\* in question are the stored rows with email e.)
C6_ReturnsTheCreatedRow ==
    Called("getUserByEmail") =>
      \A r \in SameEmail(prev.users, lastOp.arg) : result = RowResult(r)

\* C6 amended: getUserByEmail(e) returns the row createUser returned provided
\* no other stored user has email e; with several such users it returns one
\* of them.  The email is matched exactly, and the result is null when no
\* user has it.
C6_ReturnsARowWithThatEmail ==
    Called("getUserByEmail") =>
      LET match == SameEmail(prev.users, lastOp.arg)
      IN /\ TablesUnchanged
         /\ match = {} => result = NullResult
         /\ match # {} => (Returned("row") /\ result.row \in match)
         /\ \A r \in match : match = {r} => result = RowResult(r)

\* getUserByEmail returns the only user with that email while another user
\* has the email in another case.
C6_Witness ==
    /\ Called("getUserByEmail")
    /\ Returned("row")
    /\ SameEmail(users, lastOp.arg) = {result.row}
    /\ Cardinality(users) = 2

\* C7: getUser(id) returns null, never an error, for an id that was never
\* created (and for one whose row is gone), returns the row stored under the
\* id otherwise, and leaves the store unchanged.
C7_GetUser ==
    Called("getUser") =>
      /\ ~Returned("error")
      /\ lastOp.arg \notin created => result = NullResult
      /\ lastOp.arg \notin UserIds(prev.users) => result = NullResult
      /\ \A u \in prev.users : u.id = lastOp.arg => result = RowResult(u)
      /\ TablesUnchanged

\* getUser of an id that was never created, in a store that holds a user.
C7_Witness ==
    /\ Called("getUser")
    /\ lastOp.arg \notin created
    /\ users # {}
    /\ result = NullResult

\* C8: updateUser with data whose id is absent or empty raises the
\* "No user id." error and leaves every table unchanged.
C8_UpdateUserWithoutId ==
    (Called("updateUser") /\ lastOp.arg.id \in {Undefined, ""}) =>
      /\ result = ErrorResult("No user id.")
      /\ TablesUnchanged

\* updateUser with an empty id and an email to set, in a store with users.
C8_Witness ==
    /\ Called("updateUser")
    /\ lastOp.arg.id = ""
    /\ lastOp.arg.email # Undefined
    /\ users # {}
    /\ Returned("error")

\* The accounts with exactly this provider and providerAccountId.
SamePair(as, account) ==
    {a \in as : /\ a.provider = account.provider
                /\ a.providerAccountId = account.providerAccountId}

\* C9: a successful linkAccount(p, a, U) stores the account; the account
\* stays until it is unlinked or U is deleted; while it is stored,
\* getUserByAccount(p, a) returns the user with id U; and getUserByAccount
\* returns null when no account has exactly the pair (p, a).
C9_GetUserByAccount ==
    /\ (Called("linkAccount") /\ Returned("row")) =>
         \E a \in accounts : /\ AccountKey(a) = AccountKey(lastOp.arg)
                             /\ a.userId = lastOp.arg.userId
    /\ \A a \in prev.accounts :
         (/\ ~(Called("unlinkAccount") /\ AccountKey(lastOp.arg) = AccountKey(a))
          /\ ~(Called("deleteUser") /\ lastOp.arg = a.userId))
           => a \in accounts
    /\ Called("getUserByAccount") =>
         /\ SamePair(prev.accounts, lastOp.arg) = {} => result = NullResult
         /\ \A a \in SamePair(prev.accounts, lastOp.arg) :
              /\ Returned("row")
              /\ result.row.id = a.userId
              /\ result.row \in users

\* getUserByAccount returns the user of the linked account, another user
\* being stored too.
C9_Witness ==
    /\ Called("getUserByAccount")
    /\ Returned("row")
    /\ \E a \in accounts : /\ AccountKey(a) = AccountKey(lastOp.arg)
                           /\ a.userId = result.row.id
    /\ Cardinality(users) = 2

\* C10: every account and every session has the userId of a stored user, and
\* getSessionAndUser returns the (session, user) pair for every stored
\* session.
C10_ReferentialIntegrity ==
    /\ \A a \in accounts : a.userId \in UserIds(users)
    /\ \A s \in sessions : s.userId \in UserIds(users)
    /\ Called("getSessionAndUser") =>
         \A s \in prev.sessions :
           s.sessionToken = lastOp.arg =>
             /\ Returned("pair")
             /\ result.session = s
             /\ result.user \in users
             /\ result.user.id = s.userId

\* An updateSession that would point a session at a user that is not stored
\* was rejected.
C10_Witness ==
    /\ Called("updateSession")
    /\ result = ConstraintError
    /\ sessions # {}
    /\ lastOp.arg.userId \notin UserIds(users)

Next ==
    \/ createUser
    \/ getUser
    \/ getUserByEmail
    \/ createSession
    \/ getSessionAndUser
    \/ updateUser
    \/ updateSession
    \/ linkAccount
    \/ getUserByAccount
    \/ deleteSession
    \/ createVerificationToken
    \/ useVerificationToken
    \/ deleteUser
    \/ unlinkAccount

Spec == Init /\ [][Next]_vars
====
